---- MODULE Spec2Model ----
(***************************************************************************)
(* Model of the persona feedback simulator, src/simulation_core.py:        *)
(* SimulationEngine.simulate and the helpers it calls (_score_confidence,  *)
(* _extract_followups, _heuristic_persona_reply), run by up to two threads *)
(* of one process that share the module-level random source.               *)
(*                                                                         *)
(* A Python str is a sequence of one-character strings, so that lower(),   *)
(* strip(), concatenation and the substring test `k in s` are computed as  *)
(* the code computes them.  A float is an integer number of 1/UNIT.        *)
(***************************************************************************)
EXTENDS Integers, Sequences, FiniteSets, TLC

\* ------------------------------------------------------------------ bounds
\* simulate is called with turns in MinTurns..MaxTurns
MaxTurns == 4
\* number of states of the modelled random source; random.random() is u/RngMod
RngMod == 8
\* longest spec text given to _extract_followups alone, in words
MaxWords == 2
\* the longer of two concurrent calls is made with turns in 1..MaxConcTurns
MaxConcTurns == 3

\* ------------------------------------------------- string constants (code)
\* "unclear"
K_unclear == <<"u","n","c","l","e","a","r">>
\* "confusing"
K_confusing == <<"c","o","n","f","u","s","i","n","g">>
\* "not sure"
K_not_sure == <<"n","o","t"," ","s","u","r","e">>
\* "analytics"
K_analytics == <<"a","n","a","l","y","t","i","c","s">>
\* "onboarding"
K_onboarding == <<"o","n","b","o","a","r","d","i","n","g">>
\* "paywall"
K_paywall == <<"p","a","y","w","a","l","l">>
\* "pricing"
K_pricing == <<"p","r","i","c","i","n","g">>
\* "trial"
K_trial == <<"t","r","i","a","l">>
\* "accessibility"
K_accessibility == <<"a","c","c","e","s","s","i","b","i","l","i","t","y">>
\* "aria"
K_aria == <<"a","r","i","a">>
\* "keyboard"
K_keyboard == <<"k","e","y","b","o","a","r","d">>
\* "contrast"
K_contrast == <<"c","o","n","t","r","a","s","t">>
\* "wcag"
K_wcag == <<"w","c","a","g">>
\* "privacy"
K_privacy == <<"p","r","i","v","a","c","y">>
\* "gdpr"
K_gdpr == <<"g","d","p","r">>
\* "signup"
K_signup == <<"s","i","g","n","u","p">>
\* "dashboard"
K_dashboard == <<"d","a","s","h","b","o","a","r","d">>
\* "mobile"
K_mobile == <<"m","o","b","i","l","e">>
\* "access"
K_access == <<"a","c","c","e","s","s">>
\* "color"
K_color == <<"c","o","l","o","r">>
\* "api"
K_api == <<"a","p","i">>
\* "export"
K_export == <<"e","x","p","o","r","t">>
\* "security"
K_security == <<"s","e","c","u","r","i","t","y">>
\* "product manager"
K_product_manager == <<"p","r","o","d","u","c","t"," ","m","a","n","a","g","e","r">>
\* "screen"
K_screen == <<"s","c","r","e","e","n">>
\* "gen z"
K_gen_z == <<"g","e","n"," ","z">>
\* "Which success metrics and target thresholds are defined?"
Q_METRICS ==
    <<"W","h","i","c","h"," ","s","u","c","c","e","s","s"," ","m","e","t","r","i","c","s"," ",
    "a","n","d"," ","t","a","r","g","e","t"," ","t","h","r","e","s","h","o","l","d","s"," ",
    "a","r","e"," ","d","e","f","i","n","e","d","?">>
\* "Can users skip steps and finish later?"
Q_SKIP ==
    <<"C","a","n"," ","u","s","e","r","s"," ","s","k","i","p"," ","s","t","e","p","s"," ","a",
    "n","d"," ","f","i","n","i","s","h"," ","l","a","t","e","r","?">>
\* "Is there a free trial or grace period before payment is required?"
Q_TRIAL ==
    <<"I","s"," ","t","h","e","r","e"," ","a"," ","f","r","e","e"," ","t","r","i","a","l"," ",
    "o","r"," ","g","r","a","c","e"," ","p","e","r","i","o","d"," ","b","e","f","o","r","e",
    " ","p","a","y","m","e","n","t"," ","i","s"," ","r","e","q","u","i","r","e","d","?">>
\* "Have you tested keyboard-only navigation and screen-reader labels?"
Q_KEYBOARD ==
    <<"H","a","v","e"," ","y","o","u"," ","t","e","s","t","e","d"," ","k","e","y","b","o","a",
    "r","d","-","o","n","l","y"," ","n","a","v","i","g","a","t","i","o","n"," ","a","n","d",
    " ","s","c","r","e","e","n","-","r","e","a","d","e","r"," ","l","a","b","e","l","s","?">>
\* "What data is collected and how is it governed?"
Q_DATA ==
    <<"W","h","a","t"," ","d","a","t","a"," ","i","s"," ","c","o","l","l","e","c","t","e","d",
    " ","a","n","d"," ","h","o","w"," ","i","s"," ","i","t"," ","g","o","v","e","r","n","e",
    "d","?">>
\* "What is the primary job-to-be-done for this feature?"
Q_JTBD ==
    <<"W","h","a","t"," ","i","s"," ","t","h","e"," ","p","r","i","m","a","r","y"," ","j","o",
    "b","-","t","o","-","b","e","-","d","o","n","e"," ","f","o","r"," ","t","h","i","s"," ",
    "f","e","a","t","u","r","e","?">>
\* "Onboarding may be too long; consider progressive disclosure."
C_ONBOARDING ==
    <<"O","n","b","o","a","r","d","i","n","g"," ","m","a","y"," ","b","e"," ","t","o","o"," ",
    "l","o","n","g",";"," ","c","o","n","s","i","d","e","r"," ","p","r","o","g","r","e","s",
    "s","i","v","e"," ","d","i","s","c","l","o","s","u","r","e",".">>
\* "Surface the top 3 KPIs above the fold; defer advanced charts."
S_DASHBOARD ==
    <<"S","u","r","f","a","c","e"," ","t","h","e"," ","t","o","p"," ","3"," ","K","P","I","s",
    " ","a","b","o","v","e"," ","t","h","e"," ","f","o","l","d",";"," ","d","e","f","e","r",
    " ","a","d","v","a","n","c","e","d"," ","c","h","a","r","t","s",".">>
\* "Ensure tap targets are >= 44px and content is responsive."
C_MOBILE ==
    <<"E","n","s","u","r","e"," ","t","a","p"," ","t","a","r","g","e","t","s"," ","a","r","e",
    " ",">","="," ","4","4","p","x"," ","a","n","d"," ","c","o","n","t","e","n","t"," ","i",
    "s"," ","r","e","s","p","o","n","s","i","v","e",".">>
\* "Add aria-labels, visible focus states, and non-color cues to meet WCAG 2.2 AA."
S_ARIA ==
    <<"A","d","d"," ","a","r","i","a","-","l","a","b","e","l","s",","," ","v","i","s","i","b",
    "l","e"," ","f","o","c","u","s"," ","s","t","a","t","e","s",","," ","a","n","d"," ","n",
    "o","n","-","c","o","l","o","r"," ","c","u","e","s"," ","t","o"," ","m","e","e","t"," ",
    "W","C","A","G"," ","2",".","2"," ","A","A",".">>
\* "Hard paywalls can increase drop-off; test a trial or freemium."
C_PAYWALL ==
    <<"H","a","r","d"," ","p","a","y","w","a","l","l","s"," ","c","a","n"," ","i","n","c","r",
    "e","a","s","e"," ","d","r","o","p","-","o","f","f",";"," ","t","e","s","t"," ","a"," ",
    "t","r","i","a","l"," ","o","r"," ","f","r","e","e","m","i","u","m",".">>
\* "Clarify data processing, retention, and opt-out; add a DPIA summary."
C_PRIVACY ==
    <<"C","l","a","r","i","f","y"," ","d","a","t","a"," ","p","r","o","c","e","s","s","i","n",
    "g",","," ","r","e","t","e","n","t","i","o","n",","," ","a","n","d"," ","o","p","t","-",
    "o","u","t",";"," ","a","d","d"," ","a"," ","D","P","I","A"," ","s","u","m","m","a","r",
    "y",".">>
\* "Provide API endpoints and bulk export options for power users."
S_API ==
    <<"P","r","o","v","i","d","e"," ","A","P","I"," ","e","n","d","p","o","i","n","t","s"," ",
    "a","n","d"," ","b","u","l","k"," ","e","x","p","o","r","t"," ","o","p","t","i","o","n",
    "s"," ","f","o","r"," ","p","o","w","e","r"," ","u","s","e","r","s",".">>
\* "Need SSO/MFA, audit logs, and data retention controls."
C_SECURITY ==
    <<"N","e","e","d"," ","S","S","O","/","M","F","A",","," ","a","u","d","i","t"," ","l","o",
    "g","s",","," ","a","n","d"," ","d","a","t","a"," ","r","e","t","e","n","t","i","o","n",
    " ","c","o","n","t","r","o","l","s",".">>
\* "Define success metrics and an A/B test plan."
S_METRICS ==
    <<"D","e","f","i","n","e"," ","s","u","c","c","e","s","s"," ","m","e","t","r","i","c","s",
    " ","a","n","d"," ","a","n"," ","A","/","B"," ","t","e","s","t"," ","p","l","a","n",".">>
\* "Verify no keyboard traps; test with VoiceOver/NVDA."
C_KEYTRAPS ==
    <<"V","e","r","i","f","y"," ","n","o"," ","k","e","y","b","o","a","r","d"," ","t","r","a",
    "p","s",";"," ","t","e","s","t"," ","w","i","t","h"," ","V","o","i","c","e","O","v","e",
    "r","/","N","V","D","A",".">>
\* "Looks fun if visuals stay bold with quick motion affordances."
KU_FUN ==
    <<"L","o","o","k","s"," ","f","u","n"," ","i","f"," ","v","i","s","u","a","l","s"," ","s",
    "t","a","y"," ","b","o","l","d"," ","w","i","t","h"," ","q","u","i","c","k"," ","m","o",
    "t","i","o","n"," ","a","f","f","o","r","d","a","n","c","e","s",".">>
\* "**What I like:** "
L_KUDOS == <<"*","*","W","h","a","t"," ","I"," ","l","i","k","e",":","*","*"," ">>
\* "**Concerns:** "
L_CONCERNS == <<"*","*","C","o","n","c","e","r","n","s",":","*","*"," ">>
\* "**Suggestions:** "
L_SUGGESTIONS == <<"*","*","S","u","g","g","e","s","t","i","o","n","s",":","*","*"," ">>
\* "Looks promising; would like to test a clickable prototype."
R_FALLBACK ==
    <<"L","o","o","k","s"," ","p","r","o","m","i","s","i","n","g",";"," ","w","o","u","l","d",
    " ","l","i","k","e"," ","t","o"," ","t","e","s","t"," ","a"," ","c","l","i","c","k","a",
    "b","l","e"," ","p","r","o","t","o","t","y","p","e",".">>
\* "; "
SEP_ITEMS == <<";"," ">>
\* "\n\n"
SEP_BLOCKS == <<"\n","\n">>
\* " "
SPACE == <<" ">>
\* "Untitled Feature"
UNTITLED == <<"U","n","t","i","t","l","e","d"," ","F","e","a","t","u","r","e">>
\* "Please review the feature: "
OPEN_1 ==
    <<"P","l","e","a","s","e"," ","r","e","v","i","e","w"," ","t","h","e"," ","f","e","a","t",
    "u","r","e",":"," ">>
\* ". Key context:\n"
OPEN_2 == <<"."," ","K","e","y"," ","c","o","n","t","e","x","t",":","\n">>
\* "\nShare candid feedback in your usual tone."
OPEN_3 ==
    <<"\n","S","h","a","r","e"," ","c","a","n","d","i","d"," ","f","e","e","d","b","a","c","k",
    " ","i","n"," ","y","o","u","r"," ","u","s","u","a","l"," ","t","o","n","e",".">>
\* "Follow-up: "
FOLLOW_UP_PREFIX == <<"F","o","l","l","o","w","-","u","p",":"," ">>
\* "User intent inferred from provided spec"
A_ASSUME_1 ==
    <<"U","s","e","r"," ","i","n","t","e","n","t"," ","i","n","f","e","r","r","e","d"," ","f",
    "r","o","m"," ","p","r","o","v","i","d","e","d"," ","s","p","e","c">>
\* "No live usability data"
A_ASSUME_2 ==
    <<"N","o"," ","l","i","v","e"," ","u","s","a","b","i","l","i","t","y"," ","d","a","t","a">>
\* "Analytics"
W_Analytics == <<"A","n","a","l","y","t","i","c","s">>
\* "onboarding"
W_onboarding == <<"o","n","b","o","a","r","d","i","n","g">>
\* "paywalls"
W_paywalls == <<"p","a","y","w","a","l","l","s">>
\* "trial"
W_trial == <<"t","r","i","a","l">>
\* "WCAG"
W_WCAG == <<"W","C","A","G">>
\* "GDPR"
W_GDPR == <<"G","D","P","R">>
\* "Unclear"
W_unclear == <<"U","n","c","l","e","a","r">>
\* "Confusing"
W_confusing == <<"C","o","n","f","u","s","i","n","g">>
\* "Not sure"
W_not_sure == <<"N","o","t"," ","s","u","r","e">>
\* "notes"
W_notes == <<"n","o","t","e","s">>
\* "Add a paywall with a 7-day trial and GDPR-compliant data export"
EXAMPLE_SPEC ==
    <<"A","d","d"," ","a"," ","p","a","y","w","a","l","l"," ","w","i","t","h"," ","a"," ","7",
    "-","d","a","y"," ","t","r","i","a","l"," ","a","n","d"," ","G","D","P","R","-","c","o",
    "m","p","l","i","a","n","t"," ","d","a","t","a"," ","e","x","p","o","r","t">>
\* "Checkout"
T_Checkout == <<"C","h","e","c","k","o","u","t">>
\* " \t"
T_blank == <<" ","\t">>
\* "Security Admin"
AR_security == <<"S","e","c","u","r","i","t","y"," ","A","d","m","i","n">>
\* "Product Manager"
AR_pm == <<"P","r","o","d","u","c","t"," ","M","a","n","a","g","e","r">>
\* "Gen Z Student"
AR_student == <<"G","e","n"," ","Z"," ","S","t","u","d","e","n","t">>
\* "Sounds useful."
REPLY_A == <<"S","o","u","n","d","s"," ","u","s","e","f","u","l",".">>
\* "I'm not sure."
REPLY_B == <<"I","'","m"," ","n","o","t"," ","s","u","r","e",".">>

\* ------------------------------------------------------- str operations
UPPER_CHARS == <<"A","B","C","D","E","F","G","H","I","J","K","L","M",
                 "N","O","P","Q","R","S","T","U","V","W","X","Y","Z">>
LOWER_CHARS == <<"a","b","c","d","e","f","g","h","i","j","k","l","m",
                 "n","o","p","q","r","s","t","u","v","w","x","y","z">>

\* str.lower() of one character
LowerChar == [c \in {UPPER_CHARS[i] : i \in 1..26} |->
                 LOWER_CHARS[CHOOSE i \in 1..26 : UPPER_CHARS[i] = c]]

\* str.lower()
Lower(s) ==
    SubSeq([i \in 1..Len(s) |-> IF s[i] \in DOMAIN LowerChar THEN LowerChar[s[i]] ELSE s[i]],
           1, Len(s))

\* the substring test `k in s`
In(k, s) ==
    \/ k = <<>>
    \/ \E i \in 1..(Len(s) - Len(k) + 1) :
          s[i] = k[1] /\ \A j \in 2..Len(k) : s[i + j - 1] = k[j]

\* any(k in s for k in ks)
AnyIn(ks, s) == \E n \in 1..Len(ks) : In(ks[n], s)

\* the characters str.strip() removes
WHITESPACE == {" ", "\t", "\n"}

\* str.strip()
Strip(s) ==
    LET keep == {i \in 1..Len(s) : s[i] \notin WHITESPACE}
    IN  IF keep = {} THEN <<>>
        ELSE LET lo == CHOOSE i \in keep : \A j \in keep : i <= j
                 hi == CHOOSE i \in keep : \A j \in keep : j <= i
             IN  SubSeq(s, lo, hi)

\* sep.join(items)
RECURSIVE Join(_, _)
Join(sep, items) ==
    IF items = <<>> THEN <<>>
    ELSE IF Len(items) = 1 THEN items[1]
    ELSE items[1] \o sep \o Join(sep, Tail(items))

\* a list comprehension [x for x in xs if keep(x)] over a list of strings
RECURSIVE Filter(_, _)
Filter(xs, s) ==
    IF xs = <<>> THEN <<>>
    ELSE (IF In(xs[1], s) THEN <<xs[1]>> ELSE <<>>) \o Filter(Tail(xs), s)

\* xs[:n]
Take(xs, n) == SubSeq(xs, 1, IF Len(xs) < n THEN Len(xs) ELSE n)

Min(a, b) == IF a < b THEN a ELSE b
Max(a, b) == IF a > b THEN a ELSE b

\* ------------------------------------------------------- floats
\* one float unit: a float x is the integer x * UNIT
UNIT == 100000

\* round(x, 2): to the nearest multiple of UNIT/100.  Python rounds the binary
\* float, which at a decimal tie such as 0.725 lies a little to one side; here a
\* tie goes to the even neighbour.  Either way it is a function of x alone.
Round2(x) ==
    LET step == UNIT \div 100
        q == x \div step
        r == x % step
    IN  IF 2 * r < step THEN q * step
        ELSE IF 2 * r > step THEN (q + 1) * step
        ELSE IF q % 2 = 0 THEN q * step ELSE (q + 1) * step

\* ------------------------------------------------------- the random module
\* random.seed(seed): the state after seeding depends on the seed alone
SeedState(seed) == (7 * seed + 1) % RngMod

\* the state after one draw
Advance(state) == (5 * state + 3) % RngMod

\* random.random() read off the state a draw leaves: a float in [0, 1)
RandomFloat(state) == (state * UNIT) \div RngMod

ChoiceFirst(xs, state) == xs[1]

\* random.choice(xs) read off the state a draw leaves
Choice(xs, state) == xs[(state % Len(xs)) + 1]

\* random.randint(lo, hi) read off the state a draw leaves
RandInt(lo, hi, state) == lo + (state * (hi - lo + 1)) \div RngMod

\* ------------------------------------------------------- _score_confidence
BASE_CONFIDENCE == 55000
EXPERT_BONUS == 15000
RISK_PENALTY == 5000
HEDGE_PENALTY == 20000
CONF_MIN == 5000
CONF_MAX == 95000

HEDGE_WORDS == <<K_unclear, K_confusing, K_not_sure>>

\* base after the three adjustments, before jitter
ConfidenceBase(persona, text) ==
    BASE_CONFIDENCE
    + (IF persona.tech_literacy = "expert" THEN EXPERT_BONUS ELSE 0)
    - (IF persona.risk_aversion = "high" THEN RISK_PENALTY ELSE 0)
    - (IF AnyIn(HEDGE_WORDS, Lower(text)) THEN HEDGE_PENALTY ELSE 0)

\* (random.random() - 0.5) * 0.1 for the draw r
Jitter(r) == (r - UNIT \div 2) \div 10

ScoreUnscaledUnclamped(persona, text, state) ==
    ConfidenceBase(persona, text) + (RandomFloat(state) - UNIT \div 2)

\* _score_confidence, given the state the draw of random.random() leaves
_score_confidence(persona, text, state) ==
    Max(CONF_MIN, Min(CONF_MAX, ConfidenceBase(persona, text) + Jitter(RandomFloat(state))))

\* ------------------------------------------------------- _extract_followups
ACCESSIBILITY_WORDS == <<K_accessibility, K_aria, K_keyboard, K_contrast, K_wcag>>

ExtractNoFallback(persona, spec) ==
    LET low == Lower(spec)
    IN  Take((IF In(K_analytics, low) THEN <<Q_METRICS>> ELSE <<>>)
          \o (IF In(K_onboarding, low) THEN <<Q_SKIP>> ELSE <<>>)
          \o (IF In(K_paywall, low) \/ In(K_pricing, low) \/ In(K_trial, low)
              THEN <<Q_TRIAL>> ELSE <<>>)
          \o (IF AnyIn(ACCESSIBILITY_WORDS, low) THEN <<Q_KEYBOARD>> ELSE <<>>)
          \o (IF In(K_privacy, low) \/ In(K_gdpr, low) THEN <<Q_DATA>> ELSE <<>>), 6)

ExtractPrivacyFirst(persona, spec) ==
    LET low == Lower(spec)
        qs == (IF In(K_analytics, low) THEN <<Q_METRICS>> ELSE <<>>)
           \o (IF In(K_onboarding, low) THEN <<Q_SKIP>> ELSE <<>>)
           \o (IF In(K_privacy, low) \/ In(K_gdpr, low) THEN <<Q_DATA>> ELSE <<>>)
           \o (IF In(K_paywall, low) \/ In(K_pricing, low) \/ In(K_trial, low)
               THEN <<Q_TRIAL>> ELSE <<>>)
           \o (IF AnyIn(ACCESSIBILITY_WORDS, low) THEN <<Q_KEYBOARD>> ELSE <<>>)
    IN  Take(IF qs = <<>> THEN <<Q_JTBD>> ELSE qs, 6)

_extract_followups(persona, spec) ==
    LET low == Lower(spec)
        qs == (IF In(K_analytics, low) THEN <<Q_METRICS>> ELSE <<>>)
           \o (IF In(K_onboarding, low) THEN <<Q_SKIP>> ELSE <<>>)
           \o (IF In(K_paywall, low) \/ In(K_pricing, low) \/ In(K_trial, low)
               THEN <<Q_TRIAL>> ELSE <<>>)
           \o (IF AnyIn(ACCESSIBILITY_WORDS, low) THEN <<Q_KEYBOARD>> ELSE <<>>)
           \o (IF In(K_privacy, low) \/ In(K_gdpr, low) THEN <<Q_DATA>> ELSE <<>>)
    IN  Take(IF qs = <<>> THEN <<Q_JTBD>> ELSE qs, 6)

\* ------------------------------------------------------- _heuristic_persona_reply
REPLY_ACCESS_WORDS == <<K_access, K_aria, K_keyboard, K_contrast, K_wcag, K_color>>
PAYWALL_WORDS == <<K_paywall, K_pricing, K_trial>>
TRACKED_KEYWORDS == <<K_onboarding, K_dashboard, K_mobile, K_access, K_paywall, K_pricing,
                      K_aria, K_privacy, K_gdpr, K_keyboard, K_contrast>>
ASSUMPTIONS == <<A_ASSUME_1, A_ASSUME_2>>

Concerns(persona, lower) ==
    LET arch == Lower(persona.archetype)
    IN  (IF In(K_onboarding, lower) \/ In(K_signup, lower) THEN <<C_ONBOARDING>> ELSE <<>>)
     \o (IF In(K_mobile, lower) THEN <<C_MOBILE>> ELSE <<>>)
     \o (IF AnyIn(PAYWALL_WORDS, lower) THEN <<C_PAYWALL>> ELSE <<>>)
     \o (IF In(K_privacy, lower) \/ In(K_gdpr, lower) THEN <<C_PRIVACY>> ELSE <<>>)
     \o (IF In(K_security, arch) THEN <<C_SECURITY>> ELSE <<>>)
     \o (IF In(K_screen, arch) \/ In(K_accessibility, arch) THEN <<C_KEYTRAPS>> ELSE <<>>)

Suggestions(persona, lower) ==
    LET arch == Lower(persona.archetype)
    IN  (IF In(K_dashboard, lower) THEN <<S_DASHBOARD>> ELSE <<>>)
     \o (IF AnyIn(REPLY_ACCESS_WORDS, lower) THEN <<S_ARIA>> ELSE <<>>)
     \o (IF In(K_api, lower) \/ In(K_export, lower) THEN <<S_API>> ELSE <<>>)
     \o (IF In(K_product_manager, arch) THEN <<S_METRICS>> ELSE <<>>)

Kudos(persona, lower) ==
    IF In(K_gen_z, Lower(persona.archetype)) \/ persona.tone = "casual"
    THEN <<KU_FUN>> ELSE <<>>

\* the reply text: the non-empty blocks, kudos, concerns, suggestions
ReplyText(kudos, concerns, suggestions) ==
    LET summary == (IF kudos # <<>> THEN <<L_KUDOS \o Join(SEP_ITEMS, kudos)>> ELSE <<>>)
                \o (IF concerns # <<>> THEN <<L_CONCERNS \o Join(SEP_ITEMS, concerns)>> ELSE <<>>)
                \o (IF suggestions # <<>>
                    THEN <<L_SUGGESTIONS \o Join(SEP_ITEMS, suggestions)>> ELSE <<>>)
    IN  Join(SEP_BLOCKS, IF summary = <<>> THEN <<R_FALLBACK>> ELSE summary)

\* _heuristic_persona_reply, given the state its one draw (line 111) leaves:
\* reply and reasoning are the pair it returns, confidence its local of that name
_heuristic_persona_reply(persona, user_msg, feature_spec, state) ==
    LET lower == Lower(user_msg \o SPACE \o feature_spec)
        conf == _score_confidence(persona, user_msg, state)
    IN  [reply |-> ReplyText(Kudos(persona, lower), Concerns(persona, lower),
                             Suggestions(persona, lower)),
         reasoning |-> [salient_traits |-> Take(persona.traits, 3),
                        assumptions |-> ASSUMPTIONS,
                        signals |-> [keywords_hit |-> Filter(TRACKED_KEYWORDS, lower)],
                        confidence |-> Round2(conf),
                        follow_ups |-> _extract_followups(persona, feature_spec)],
         confidence |-> conf]

\* ------------------------------------------------------- inputs
\* the threads of the process that may call simulate
Calls == {1, 2}

MinTurns == -1
SEED_DEFAULT == 42
Seeds == {SEED_DEFAULT, 7}

\* wall-clock readings (time.time(), datetime.utcnow())
Times == {0, 1}

\* what the external agent may answer (tiny_person.listen_and_act)
AGENT_REPLIES == {REPLY_A, REPLY_B}

TRAITS == <<"pragmatic", "skeptical", "detail-oriented", "busy">>

MkPersona(archetype, tone, lit, risk, ntraits) ==
    [archetype |-> archetype, tone |-> tone, tech_literacy |-> lit,
     risk_aversion |-> risk, traits |-> Take(TRAITS, ntraits)]

Personas ==
    { MkPersona(AR_security, "formal", "expert", "high", 4),
      MkPersona(AR_pm, "neutral", "expert", "medium", 2),
      MkPersona(AR_student, "casual", "intermediate", "high", 3),
      MkPersona(AR_pm, "casual", "intermediate", "medium", 0) }


WORDS == {W_Analytics, W_onboarding, W_paywalls, W_trial, W_WCAG, W_GDPR,
          W_unclear, W_confusing, W_not_sure, W_notes}

\* the texts of at most n words of WORDS, single-spaced
RECURSIVE Texts(_)
Texts(n) ==
    IF n = 0 THEN {<<>>}
    ELSE LET shorter == Texts(n - 1)
         IN  shorter \cup WORDS \cup {s \o SPACE \o w : s \in shorter \ {<<>>}, w \in WORDS}

\* the (feature_title, feature_spec) pairs simulate is called with
Features ==
    { <<T_blank, <<>>>>,
      <<T_Checkout, W_GDPR \o SPACE \o W_paywalls>>,
      <<T_Checkout, W_unclear \o SPACE \o W_onboarding \o SPACE \o W_Analytics \o <<"\n">>>> }

MkArgs(persona, feature, turns, seed) ==
    [persona |-> persona, feature_title |-> feature[1], feature_spec |-> feature[2],
     turns |-> turns, seed |-> seed]

ArgSet ==
    {MkArgs(p, f, n, s) : p \in Personas, f \in Features, n \in MinTurns..MaxTurns, s \in Seeds}

\* ------------------------------------------------------- state
VARIABLES
    clock,         \* the wall clock the process reads
    rng,           \* state of the process-wide random source (module random)
    TT_AVAILABLE,  \* whether the agent library was imported
    api_key,       \* whether OPENAI_API_KEY or AZURE_OPENAI_KEY is set
    pc,            \* per call: where the thread is in simulate
    args,          \* per call: the arguments of simulate
    conv,          \* per call: the Conversation under construction / returned
    t,             \* per call: the loop variable t
    meta,          \* per call: meta, the reasoning of the first heuristic reply
    prompt,        \* per call: q (heuristic loop) or prompt (agent loop)
    confidence,    \* per call: the last value _score_confidence returned
    overlap,       \* whether some call took a step while another was inside simulate
    probe_pc,      \* "call" before, "returned" after _extract_followups is called alone
    probe_spec,    \* the spec text it is called with
    probe_qs       \* what it returned

vars == <<clock, rng, TT_AVAILABLE, api_key, pc, args, conv, t, meta, prompt,
          confidence, overlap, probe_pc, probe_pc, probe_spec, probe_qs>>

Message(role, content, m) == [role |-> role, content |-> content, meta |-> m]

\* Message.meta left at its default, the empty dict
NO_META == <<>>

\* Message(role="user", content=...)
UserMessage(content) == Message("user", content, NO_META)

PersonaMessageAsUser(content, m) == Message("user", content, m)

\* Message(role="persona", content=..., meta=...)
PersonaMessage(content, m) == Message("persona", content, m)

AgentEnvelopeZeroBased(tc) == [source |-> "tinytroupe", turn |-> tc]

\* line 156: the agent path's meta for loop index tc
AgentEnvelope(tc) == [source |-> "tinytroupe", turn |-> tc + 1]

InRangeInclusive(i, stop) == i <= stop

InRangeNotEqual(i, stop) == i # stop

\* whether a `for i in range(..., stop)` loop runs its body for i
InRange(i, stop) == i < stop

NO_CONV == [feature_id |-> <<>>, feature_title |-> <<>>, feature_spec |-> <<>>,
            seed |-> 0, created_at |-> 0, messages |-> <<>>]

\* line 144
UserOpen(a) == OPEN_1 \o a.feature_title \o OPEN_2 \o a.feature_spec \o OPEN_3

\* line 147
AgentPath == TT_AVAILABLE /\ api_key

Inside(c) == pc[c] \notin {"idle", "start", "done"}

Append1(c, m) == [conv EXCEPT ![c].messages = Append(@, m)]

Overlap(c) == overlap \/ \E d \in Calls \ {c} : Inside(d)

\* ------------------------------------------------------- simulate, run alone
\* lines 164-168 with no other thread drawing from random: the messages after the
\* loop has run from tc on, state being the random state before it
RECURSIVE HeuristicLoop(_, _, _, _, _)
HeuristicLoop(a, tc, state, follow_ups, messages) ==
    IF InRange(tc, a.turns)
    THEN LET s1 == Advance(state)
             q == Choice(follow_ups, s1)
             s2 == Advance(s1)
             r == _heuristic_persona_reply(a.persona, q, a.feature_spec, s2)
         IN  HeuristicLoop(a, tc + 1, s2, follow_ups,
                           messages \o <<UserMessage(q), PersonaMessage(r.reply, r.reasoning)>>)
    ELSE messages

\* lines 136-169 on the heuristic path with no other thread drawing from random:
\* conv.messages as returned
SimulateAlone(a) ==
    LET s1 == Advance(SeedState(a.seed))
        s2 == Advance(s1)
        r == _heuristic_persona_reply(a.persona, UserOpen(a), a.feature_spec, s2)
    IN  HeuristicLoop(a, 1, s2, r.reasoning.follow_ups,
                      <<UserMessage(UserOpen(a)), PersonaMessage(r.reply, r.reasoning)>>)

\* ------------------------------------------------------- simulate, step by step
SeedNotReset(c) ==
    /\ pc[c] = "start"
    /\ pc' = [pc EXCEPT ![c] = "construct"]
    /\ overlap' = Overlap(c)
    /\ UNCHANGED <<clock, rng, TT_AVAILABLE, api_key, args, conv, t, meta, prompt, confidence,
                   probe_pc, probe_spec, probe_qs>>

\* line 136: random.seed(seed)
Seed(c) ==
    /\ pc[c] = "start"
    /\ rng' = SeedState(args[c].seed)
    /\ pc' = [pc EXCEPT ![c] = "construct"]
    /\ overlap' = Overlap(c)
    /\ UNCHANGED <<clock, TT_AVAILABLE, api_key, args, conv, t, meta, prompt, confidence,
                   probe_pc, probe_spec, probe_qs>>

\* lines 137-147: the Conversation with its drawn feature_id, the opener, the branch
Construct(c) ==
    /\ pc[c] = "construct"
    /\ rng' = Advance(rng)
    /\ conv' = [conv EXCEPT ![c] =
                    [feature_id |-> <<clock, RandInt(1000, 9999, rng')>>,
                     feature_title |-> IF Strip(args[c].feature_title) # <<>>
                                       THEN Strip(args[c].feature_title) ELSE UNTITLED,
                     feature_spec |-> Strip(args[c].feature_spec),
                     seed |-> args[c].seed,
                     created_at |-> clock,
                     messages |-> <<UserMessage(UserOpen(args[c]))>>]]
    /\ pc' = [pc EXCEPT ![c] = IF AgentPath THEN "agent_loop" ELSE "first_reply"]
    /\ t' = [t EXCEPT ![c] = 0]
    /\ prompt' = [prompt EXCEPT ![c] = UserOpen(args[c])]
    /\ overlap' = Overlap(c)
    /\ UNCHANGED <<clock, TT_AVAILABLE, api_key, args, meta, confidence, probe_pc, probe_spec, probe_qs>>

\* lines 162-163: the reply to the opener
FirstReply(c) ==
    /\ pc[c] = "first_reply"
    /\ rng' = Advance(rng)
    /\ LET r == _heuristic_persona_reply(args[c].persona, UserOpen(args[c]),
                                         args[c].feature_spec, rng')
       IN  /\ conv' = Append1(c, PersonaMessage(r.reply, r.reasoning))
           /\ meta' = [meta EXCEPT ![c] = r.reasoning]
           /\ confidence' = [confidence EXCEPT ![c] = r.confidence]
    /\ t' = [t EXCEPT ![c] = 1]
    /\ pc' = [pc EXCEPT ![c] = "loop"]
    /\ overlap' = Overlap(c)
    /\ UNCHANGED <<clock, TT_AVAILABLE, api_key, args, prompt, probe_pc, probe_spec, probe_qs>>

\* lines 164-166: the next follow-up question
FollowUp(c) ==
    /\ pc[c] = "loop"
    /\ InRange(t[c], args[c].turns)
    /\ rng' = Advance(rng)
    /\ LET q == Choice(meta[c].follow_ups, rng')
       IN  /\ conv' = Append1(c, UserMessage(q))
           /\ prompt' = [prompt EXCEPT ![c] = q]
    /\ pc' = [pc EXCEPT ![c] = "follow_reply"]
    /\ overlap' = Overlap(c)
    /\ UNCHANGED <<clock, TT_AVAILABLE, api_key, args, t, meta, confidence, probe_pc, probe_spec, probe_qs>>

\* lines 167-168: the reply to the follow-up question
FollowReply(c) ==
    /\ pc[c] = "follow_reply"
    /\ rng' = Advance(rng)
    /\ LET r == _heuristic_persona_reply(args[c].persona, prompt[c],
                                         args[c].feature_spec, rng')
       IN  /\ conv' = Append1(c, PersonaMessage(r.reply, r.reasoning))
           /\ confidence' = [confidence EXCEPT ![c] = r.confidence]
    /\ t' = [t EXCEPT ![c] = t[c] + 1]
    /\ pc' = [pc EXCEPT ![c] = "loop"]
    /\ overlap' = Overlap(c)
    /\ UNCHANGED <<clock, TT_AVAILABLE, api_key, args, meta, prompt, probe_pc, probe_spec, probe_qs>>

\* lines 155-157: the agent's reply
AgentReply(c) ==
    /\ pc[c] = "agent_loop"
    /\ InRange(t[c], args[c].turns)
    /\ \E response \in AGENT_REPLIES :
         conv' = Append1(c, PersonaMessage(response, AgentEnvelope(t[c])))
    /\ pc' = [pc EXCEPT ![c] = "agent_follow"]
    /\ overlap' = Overlap(c)
    /\ UNCHANGED <<clock, rng, TT_AVAILABLE, api_key, args, t, meta, prompt, confidence,
                   probe_pc, probe_spec, probe_qs>>

\* lines 158-160: the follow-up after the agent's reply
AgentFollow(c) ==
    /\ pc[c] = "agent_follow"
    /\ rng' = Advance(rng)
    /\ LET follow_qs == _extract_followups(args[c].persona, args[c].feature_spec)
           p == FOLLOW_UP_PREFIX \o Choice(follow_qs, rng')
       IN  /\ prompt' = [prompt EXCEPT ![c] = p]
           /\ conv' = Append1(c, UserMessage(p))
    /\ t' = [t EXCEPT ![c] = t[c] + 1]
    /\ pc' = [pc EXCEPT ![c] = "agent_loop"]
    /\ overlap' = Overlap(c)
    /\ UNCHANGED <<clock, TT_AVAILABLE, api_key, args, meta, confidence, probe_pc, probe_spec, probe_qs>>

\* line 169: either loop is exhausted, simulate returns conv
Return(c) ==
    /\ pc[c] \in {"loop", "agent_loop"}
    /\ ~InRange(t[c], args[c].turns)
    /\ pc' = [pc EXCEPT ![c] = "done"]
    /\ overlap' = Overlap(c)
    /\ UNCHANGED <<clock, rng, TT_AVAILABLE, api_key, args, conv, t, meta, prompt, confidence,
                   probe_pc, probe_spec, probe_qs>>

\* _extract_followups called on its own
Extract ==
    /\ probe_pc = "call"
    /\ probe_qs' = _extract_followups(args[1].persona, probe_spec)
    /\ probe_pc' = "returned"
    /\ UNCHANGED <<clock, rng, TT_AVAILABLE, api_key, pc, args, conv, t, meta, prompt,
                   confidence, overlap, probe_spec>>

\* ------------------------------------------------------- specifications
InitLocals ==
    /\ conv = [c \in Calls |-> NO_CONV]
    /\ t = [c \in Calls |-> 0]
    /\ meta = [c \in Calls |-> NO_META]
    /\ prompt = [c \in Calls |-> <<>>]
    /\ confidence = [c \in Calls |-> 0]
    /\ overlap = FALSE

NoProbe ==
    /\ probe_pc = "idle"
    /\ probe_spec = <<>>
    /\ probe_qs = <<>>

\* one call of simulate: any arguments, environment, clock and prior random state
Init ==
    /\ clock \in Times
    /\ rng \in 0..(RngMod - 1)
    /\ TT_AVAILABLE \in BOOLEAN
    /\ api_key \in BOOLEAN
    /\ \E a \in ArgSet : args = [c \in Calls |-> a]
    /\ pc = [c \in Calls |-> IF c = 1 THEN "start" ELSE "idle"]
    /\ InitLocals
    /\ NoProbe

Heuristic(c) ==
    \/ Seed(c)
    \/ Construct(c)
    \/ FirstReply(c)
    \/ FollowUp(c)
    \/ FollowReply(c)
    \/ Return(c)

Agent(c) ==
    \/ AgentReply(c)
    \/ AgentFollow(c)

Next == \E c \in Calls : Heuristic(c) \/ Agent(c)

Spec == Init /\ [][Next]_vars

\* two threads call simulate on the heuristic path (no agent library), each at
\* any moment: the steps of the two calls interleave at every access to random.
\* The second call is a short one, turns = 1.
ConcArgSet ==
    {MkArgs(p, <<T_Checkout, W_GDPR \o SPACE \o W_paywalls>>, n, s) :
        p \in {MkPersona(AR_student, "casual", "intermediate", "high", 3)},
        n \in 1..MaxConcTurns, s \in Seeds}

InitConc ==
    /\ clock = 0
    /\ rng \in 0..(RngMod - 1)
    /\ TT_AVAILABLE = FALSE
    /\ api_key = TRUE
    /\ args \in [Calls -> ConcArgSet]
    /\ args[2].turns = 1
    /\ pc = [c \in Calls |-> "start"]
    /\ InitLocals
    /\ NoProbe

NextConc == \E c \in Calls : Heuristic(c)

SpecConc == InitConc /\ [][NextConc]_vars

\* two calls of simulate with the same arguments on the heuristic path, the caller
\* serializing them: a call starts only when no other call is inside simulate
SerialArgSet ==
    {MkArgs(p, f, n, s) : p \in {q \in Personas : q.risk_aversion = "high"},
                          f \in Features, n \in MinTurns..MaxTurns, s \in Seeds}

InitSerial ==
    /\ clock \in Times
    /\ rng \in 0..(RngMod - 1)
    /\ TT_AVAILABLE \in BOOLEAN
    /\ api_key = FALSE
    /\ \E a \in SerialArgSet : args = [c \in Calls |-> a]
    /\ pc = [c \in Calls |-> "start"]
    /\ InitLocals
    /\ NoProbe

NextSerial == \E c \in Calls : (\A d \in Calls \ {c} : ~Inside(d)) /\ Heuristic(c)

SpecSerial == InitSerial /\ [][NextSerial]_vars

\* one short call of simulate on the heuristic path for every persona, every spec
\* text of at most one word and every seed modulo RngMod, so that the opener and
\* the follow-up questions are scored under every draw of random.random()
ScoreArgSet ==
    {MkArgs(p, <<T_Checkout, txt>>, n, s) :
        p \in Personas, txt \in Texts(1) \cup {EXAMPLE_SPEC}, n \in 1..2, s \in 0..(RngMod - 1)}

InitScore ==
    /\ clock = 0
    /\ rng = 0
    /\ TT_AVAILABLE = FALSE
    /\ api_key = FALSE
    /\ \E a \in ScoreArgSet : args = [c \in Calls |-> a]
    /\ pc = [c \in Calls |-> IF c = 1 THEN "start" ELSE "idle"]
    /\ InitLocals
    /\ NoProbe

NextScore == \E c \in Calls : Heuristic(c)

SpecScore == InitScore /\ [][NextScore]_vars

\* _extract_followups called on its own with any text of the vocabulary
ProbeTexts == Texts(MaxWords) \cup {EXAMPLE_SPEC}

InitFollowups ==
    /\ clock = 0
    /\ rng = 0
    /\ TT_AVAILABLE = FALSE
    /\ api_key = FALSE
    /\ \E p \in Personas : args = [c \in Calls |-> MkArgs(p, <<T_blank, <<>>>>, 0, SEED_DEFAULT)]
    /\ pc = [c \in Calls |-> "idle"]
    /\ InitLocals
    /\ probe_pc = "call"
    /\ probe_spec \in ProbeTexts
    /\ probe_qs = <<>>

NextFollowups == Extract

SpecFollowups == InitFollowups /\ [][NextFollowups]_vars

\* ------------------------------------------------------- properties
Msgs(c) == conv[c].messages

Done(c) == pc[c] = "done"

Count(c, role) == Cardinality({i \in 1..Len(Msgs(c)) : Msgs(c)[i].role = role})

\* C1: in every state, also while simulate is still appending, the messages of a
\* conversation alternate: user at positions 0, 2, 4, ... (here 1, 3, 5, ...),
\* persona at the others, and no two neighbours share a role.
C1_Alternates ==
    \A c \in Calls :
        /\ \A i \in 1..Len(Msgs(c)) :
              Msgs(c)[i].role = IF i % 2 = 1 THEN "user" ELSE "persona"
        /\ \A i \in 1..(Len(Msgs(c)) - 1) : Msgs(c)[i].role # Msgs(c)[i + 1].role

C1_Witness == Done(1) /\ AgentPath /\ Len(Msgs(1)) = 2 * MaxTurns + 1

PrecededByOneUser(c) ==
    \A i \in 1..Len(Msgs(c)) :
        Msgs(c)[i].role = "persona" =>
            /\ i > 1
            /\ Msgs(c)[i - 1].role = "user"
            /\ i > 2 => Msgs(c)[i - 2].role # "user"

\* C2 as claimed: for every integer turns, on either path, the returned conversation
\* holds exactly turns persona messages, each right after exactly one user message.
C2_PersonaCountIsTurns ==
    \A c \in Calls :
        Done(c) => Count(c, "persona") = args[c].turns /\ PrecededByOneUser(c)

\* C2 as amended: the persona messages number turns when turns >= 1 (and when
\* turns = 0 on the agent path); below that the heuristic path still returns one
\* and the agent path none; each comes right after exactly one user message.
C2_PersonaCount ==
    \A c \in Calls :
        Done(c) =>
            /\ Count(c, "persona") = IF AgentPath THEN Max(args[c].turns, 0)
                                     ELSE Max(args[c].turns, 1)
            /\ PrecededByOneUser(c)

C2_Witness == Done(1) /\ ~AgentPath /\ args[1].turns = 2 /\ Count(1, "persona") = 2

\* C3 as claimed: the heuristic path with turns = 4 returns 4 persona messages and
\* 5 user messages.
C3_FourPersonaFiveUser ==
    \A c \in Calls :
        Done(c) /\ ~AgentPath /\ args[c].turns = 4 =>
            Count(c, "persona") = 4 /\ Count(c, "user") = 5

\* C3 as amended: the heuristic path with turns = 4 returns 4 persona messages and
\* 4 user messages (the opener and 3 follow-ups).
C3_FourPersonaFourUser ==
    \A c \in Calls :
        Done(c) /\ ~AgentPath /\ args[c].turns = 4 =>
            Count(c, "persona") = 4 /\ Count(c, "user") = 4

C3_Witness == Done(1) /\ ~AgentPath /\ args[1].turns = 4 /\ Len(Msgs(1)) = 8

\* C4: the agent path with turns = n >= 0 returns n persona and n + 1 user messages,
\* ends with a user follow-up when n >= 1, and the k-th persona message carries
\* exactly the meta {source, turn} with turn = k.
C4_AgentShape ==
    \A c \in Calls :
        Done(c) /\ AgentPath /\ args[c].turns >= 0 =>
            /\ Count(c, "persona") = args[c].turns
            /\ Count(c, "user") = args[c].turns + 1
            /\ Len(Msgs(c)) = 2 * args[c].turns + 1
            /\ args[c].turns >= 1 =>
                 /\ Msgs(c)[Len(Msgs(c))].role = "user"
                 /\ SubSeq(Msgs(c)[Len(Msgs(c))].content, 1, Len(FOLLOW_UP_PREFIX))
                      = FOLLOW_UP_PREFIX
            /\ \A k \in 1..args[c].turns :
                 /\ Msgs(c)[2 * k].role = "persona"
                 /\ DOMAIN Msgs(c)[2 * k].meta = {"source", "turn"}
                 /\ Msgs(c)[2 * k].meta.source = "tinytroupe"
                 /\ Msgs(c)[2 * k].meta.turn = k

C4_Witness == Done(1) /\ AgentPath /\ args[1].turns = 3 /\ Msgs(1)[6].meta.turn = 3

\* what C5 and C10 compare of a message: its role, its content and, for a persona
\* message, the confidence of its meta
Observable(m) ==
    [role |-> m.role, content |-> m.content,
     confidence |-> IF m.role = "persona" THEN m.meta.confidence ELSE 0]

Observables(messages) == [i \in 1..Len(messages) |-> Observable(messages[i])]

\* C5: two heuristic calls with the same persona, title, spec, turns and seed, one
\* after the other, return the same roles, contents and confidences, whatever the
\* random source held before each of them; of the Conversation only feature_id
\* and created_at may differ.
C5_SeedDeterminism ==
    Done(1) /\ Done(2) /\ ~overlap /\ ~AgentPath /\ args[1] = args[2]
        => /\ Observables(Msgs(1)) = Observables(Msgs(2))
           /\ Msgs(1) = Msgs(2)
           /\ conv[1].feature_title = conv[2].feature_title
           /\ conv[1].feature_spec = conv[2].feature_spec
           /\ conv[1].seed = conv[2].seed

C5_Witness ==
    /\ Done(1) /\ Done(2) /\ ~overlap /\ ~AgentPath /\ args[1] = args[2]
    /\ args[1].turns = MaxTurns
    /\ Len(Msgs(2)) = 2 * MaxTurns
    /\ Observables(Msgs(1)) = Observables(Msgs(2))

WithinClamp(v) == CONF_MIN <= v /\ v <= CONF_MAX

\* C6: for every persona, every text, hedged or not, and every draw, the value
\* _score_confidence returns lies in [0.05, 0.95], and so does the rounded
\* confidence in the meta of every persona message of the heuristic path.
C6_ConfidenceClamped ==
    \A c \in Calls :
        ~AgentPath /\ Len(Msgs(c)) >= 2 =>
            /\ WithinClamp(confidence[c])
            /\ \A i \in 1..Len(Msgs(c)) :
                 Msgs(c)[i].role = "persona" => WithinClamp(Msgs(c)[i].meta.confidence)

\* a hedged text, a high risk aversion and a negative jitter: a score under 0.30
C6_Witness ==
    /\ pc[1] = "loop" /\ ~AgentPath
    /\ In(K_not_sure, Lower(UserOpen(args[1])))
    /\ args[1].persona.risk_aversion = "high"
    /\ confidence[1] < 30000
    /\ Msgs(1)[2].meta.confidence < 30000

\* the words of the vocabulary that each rule of _extract_followups answers to, and
\* the question of each rule, in rule order
RULE_WORDS == <<{W_Analytics}, {W_onboarding}, {W_paywalls, W_trial}, {W_WCAG}, {W_GDPR}>>
RULE_QUESTIONS == <<Q_METRICS, Q_SKIP, Q_TRIAL, Q_KEYBOARD, Q_DATA>>

\* the spec text, as written, mentions a word of rule r
Mentions(r) == \E w \in RULE_WORDS[r] : In(w, probe_spec)

Asked(q) == \E i \in 1..Len(probe_qs) : probe_qs[i] = q

\* C7: for every spec text, the empty one included, _extract_followups returns 1 to
\* 6 questions; the job-to-be-done question is among them exactly when the text
\* mentions no word of any rule, and then it is the only one.
C7_FollowupCount ==
    probe_pc = "returned" =>
        /\ 1 <= Len(probe_qs) /\ Len(probe_qs) <= 6
        /\ Asked(Q_JTBD) <=> ~\E r \in 1..5 : Mentions(r)
        /\ Asked(Q_JTBD) => probe_qs = <<Q_JTBD>>

C7_Witness == probe_pc = "returned" /\ probe_spec = <<>> /\ probe_qs = <<Q_JTBD>>

Rank(q) == CHOOSE r \in 1..5 : RULE_QUESTIONS[r] = q

\* C8: when some rule matches, the questions returned are those of the rules whose
\* words the text mentions, wherever in the text, each once and in rule order; a
\* text with a paywall or trial word and GDPR gets the trial question before the
\* data-governance question.
C8_RuleOrder ==
    probe_pc = "returned" /\ (\E r \in 1..5 : Mentions(r)) =>
        /\ \A i \in 1..Len(probe_qs) : \E r \in 1..5 : probe_qs[i] = RULE_QUESTIONS[r]
        /\ \A i, j \in 1..Len(probe_qs) : i < j => Rank(probe_qs[i]) < Rank(probe_qs[j])
        /\ \A r \in 1..5 : Mentions(r) <=> Asked(RULE_QUESTIONS[r])
        /\ Mentions(3) /\ Mentions(5) =>
             \E i, j \in 1..Len(probe_qs) :
                 i < j /\ probe_qs[i] = Q_TRIAL /\ probe_qs[j] = Q_DATA

\* GDPR written before the paywall word, the trial question still first
C8_Witness ==
    /\ probe_pc = "returned"
    /\ probe_spec = W_GDPR \o SPACE \o W_paywalls
    /\ probe_qs = <<Q_TRIAL, Q_DATA>>

\* C9: on the heuristic path a call with turns < 1 goes straight from the seed to
\* the Conversation, the first reply and the return: at the loop head it can only
\* return, it never enters the follow-up loop body, and it returns exactly the
\* opener followed by one persona reply.
C9_DegenerateTurns ==
    \A c \in Calls :
        ~AgentPath /\ args[c].turns < 1 /\ pc[c] # "idle" =>
            /\ pc[c] \in {"start", "construct", "first_reply", "loop", "done"}
            /\ pc[c] = "loop" => t[c] = 1 /\ ~InRange(t[c], args[c].turns)
            /\ Done(c) =>
                 /\ Len(Msgs(c)) = 2
                 /\ Msgs(c)[1] = UserMessage(UserOpen(args[c]))
                 /\ Msgs(c)[2].role = "persona"

C9_Witness == Done(1) /\ ~AgentPath /\ args[1].turns = -1 /\ Len(Msgs(1)) = 2

\* C10: a heuristic call that ran with no step of another call in between returns
\* exactly the messages it returns when run alone; with steps of two calls
\* interleaved there are runs where a call's contents or confidences differ from
\* its run-alone result (C10_Witness is such a state).
C10_SerializedReproduces ==
    \A c \in Calls :
        Done(c) /\ ~overlap => Msgs(c) = SimulateAlone(args[c])

C10_Witness ==
    /\ Done(1) /\ Done(2) /\ overlap
    /\ \E c \in Calls :
         Observables(Msgs(c)) # Observables(SimulateAlone(args[c]))

\* the random state after the n-th draw of a call that seeded with seed and shares
\* the random source with no other call
RECURSIVE DrawState(_, _)
DrawState(seed, n) == IF n = 0 THEN SeedState(seed) ELSE Advance(DrawState(seed, n - 1))

\* the k-th follow-up question of a call running alone: the member of
\* _extract_followups(persona, feature_spec) its draw selects.  On the heuristic
\* path draws 1 and 2 are the feature_id and the first confidence and every later
\* turn draws a question, then a confidence; on the agent path draw 1 is the
\* feature_id and every turn draws one question.
DrawnQuestion(c, k) ==
    LET follow_qs == _extract_followups(args[c].persona, args[c].feature_spec)
        state == DrawState(args[c].seed, IF AgentPath THEN k + 1 ELSE 2 * k + 1)
    IN  follow_qs[(state % Len(follow_qs)) + 1]

\* C11: on both paths every user message after the opener is the question the
\* seeded random source draws from _extract_followups(persona, feature_spec): on
\* the heuristic path exactly a member of that list, which is the follow_ups of
\* the first reply's meta; on the agent path "Follow-up: " followed by a member.
\* It is fixed by the arguments and the position alone, whatever the preceding
\* persona reply says.
C11_FollowUpsFromExtractor ==
    \A c \in Calls : \A i \in 2..Len(Msgs(c)) :
        Msgs(c)[i].role = "user" =>
            LET follow_qs == _extract_followups(args[c].persona, args[c].feature_spec)
                content == Msgs(c)[i].content
            IN  /\ AgentPath =>
                     /\ \E j \in 1..Len(follow_qs) : content = FOLLOW_UP_PREFIX \o follow_qs[j]
                     /\ content = FOLLOW_UP_PREFIX \o DrawnQuestion(c, (i - 1) \div 2)
                /\ ~AgentPath =>
                     /\ \E j \in 1..Len(follow_qs) : content = follow_qs[j]
                     /\ Msgs(c)[2].meta.follow_ups = follow_qs
                     /\ content = DrawnQuestion(c, (i - 1) \div 2)

\* two different agent replies, each followed by a different question of the list
C11_Witness ==
    /\ Done(1) /\ AgentPath /\ args[1].turns = 2
    /\ Msgs(1)[2].content # Msgs(1)[4].content
    /\ Msgs(1)[3].content # Msgs(1)[5].content
    /\ Msgs(1)[3].content = FOLLOW_UP_PREFIX \o DrawnQuestion(1, 1)
====
